---- MODULE Spec2Model ----
(***************************************************************************)
(* A model of the slide-puzzle crate: the Board and Move types of          *)
(* src/src/game.rs and the A* search of src/src/search.rs.                 *)
(*                                                                         *)
(* Rust vectors are 0-indexed, TLA+ sequences 1-indexed: cell i of the     *)
(* code is cells[i + 1] here.  Option<T> is a record with a tag, and a     *)
(* panic of the code (an expect, an index out of bounds) is the third tag  *)
(* "Panic".                                                                *)
(***************************************************************************)
EXTENDS Integers, Sequences, FiniteSets, Bags, TLC

(***************************************************************************)
(* Exact natural-number arithmetic for the f64 operations of board_size.  *)
(* A binary64 significand has 53 bits and its square 106, more than the    *)
(* integers of the model checker hold, so a number is a sequence of limbs  *)
(* in base 2^LimbBits, least significant limb first, without leading zero  *)
(* limbs (zero is the empty sequence).                                     *)
(***************************************************************************)
LimbBits == 13

LimbBase == 2 ^ LimbBits

RECURSIVE NOf(_)
NOf(n) == IF n = 0 THEN <<>> ELSE <<n % LimbBase>> \o NOf(n \div LimbBase)

RECURSIVE NVal(_)
NVal(a) == IF a = <<>> THEN 0 ELSE a[1] + LimbBase * NVal(Tail(a))

\* a without its leading zero limbs
NTrim(a) ==
    LET nz == {i \in 1..Len(a) : a[i] # 0}
    IN  IF nz = {} THEN <<>>
        ELSE SubSeq(a, 1, CHOOSE i \in nz : \A j \in nz : j <= i)

NLimb(a, i) == IF i >= 1 /\ i <= Len(a) THEN a[i] ELSE 0

NMaxLen(a, b) == IF Len(a) >= Len(b) THEN Len(a) ELSE Len(b)

RECURSIVE NAddFrom(_, _, _, _)
NAddFrom(a, b, i, carry) ==
    IF i > NMaxLen(a, b)
    THEN IF carry = 0 THEN <<>> ELSE <<carry>>
    ELSE LET s == NLimb(a, i) + NLimb(b, i) + carry
         IN  <<s % LimbBase>> \o NAddFrom(a, b, i + 1, s \div LimbBase)

NAdd(a, b) == NAddFrom(a, b, 1, 0)

\* a - b for a >= b
RECURSIVE NSubFrom(_, _, _, _)
NSubFrom(a, b, i, borrow) ==
    IF i > Len(a) THEN <<>>
    ELSE LET d == NLimb(a, i) - NLimb(b, i) - borrow
         IN  <<d % LimbBase>> \o NSubFrom(a, b, i + 1, IF d < 0 THEN 1 ELSE 0)

NSub(a, b) == NTrim(NSubFrom(a, b, 1, 0))

\* a < b, comparing from the most significant limb down
RECURSIVE NLessFrom(_, _, _)
NLessFrom(a, b, i) ==
    IF i = 0 THEN FALSE
    ELSE IF a[i] # b[i] THEN a[i] < b[i]
    ELSE NLessFrom(a, b, i - 1)

NLess(a, b) ==
    IF Len(a) # Len(b) THEN Len(a) < Len(b) ELSE NLessFrom(a, b, Len(a))

\* the number of bits of a
NBitLen(a) ==
    IF a = <<>> THEN 0
    ELSE LimbBits * (Len(a) - 1)
         + (CHOOSE k \in 1..LimbBits : 2 ^ (k - 1) <= a[Len(a)] /\ a[Len(a)] < 2 ^ k)

\* a * 2^d
NShl(a, d) ==
    LET q == d \div LimbBits
        r == d % LimbBits
    IN  NTrim([i \in 1..(Len(a) + q + 1) |->
                 ((NLimb(a, i - q) * 2 ^ r) % LimbBase)
                 + (NLimb(a, i - q - 1) \div 2 ^ (LimbBits - r))])

\* floor(a / 2^d)
NShr(a, d) ==
    LET q == d \div LimbBits
        r == d % LimbBits
    IN  IF q >= Len(a) THEN <<>>
        ELSE NTrim([i \in 1..(Len(a) - q) |->
                      (a[i + q] \div 2 ^ r)
                      + ((NLimb(a, i + q + 1) % 2 ^ r) * 2 ^ (LimbBits - r))])

\* a mod 2^d
NLow(a, d) ==
    LET q == d \div LimbBits
        r == d % LimbBits
    IN  IF q >= Len(a) THEN a
        ELSE NTrim([i \in 1..(q + 1) |-> IF i <= q THEN a[i] ELSE a[i] % 2 ^ r])

NOdd(a) == a # <<>> /\ a[1] % 2 = 1

\* a * m for one limb m
RECURSIVE NMulLimbFrom(_, _, _, _)
NMulLimbFrom(a, m, i, carry) ==
    IF i > Len(a)
    THEN IF carry = 0 THEN <<>> ELSE <<carry>>
    ELSE LET p == a[i] * m + carry
         IN  <<p % LimbBase>> \o NMulLimbFrom(a, m, i + 1, p \div LimbBase)

NMulLimb(a, m) == NTrim(NMulLimbFrom(a, m, 1, 0))

\* a * b: the sum of a times each limb of b, shifted to that limb's place
RECURSIVE NMulFrom(_, _, _)
NMulFrom(a, b, i) ==
    IF i > Len(b) THEN <<>>
    ELSE NAdd(NShl(NMulLimb(a, b[i]), LimbBits * (i - 1)),
              NMulFrom(a, b, i + 1))

NMul(a, b) == NMulFrom(a, b, 1)

(***************************************************************************)
(* The integer square root by the binary digit-by-digit method: st.x is    *)
(* the remainder, st.res the root so far, 2^(2k) the current power of      *)
(* four.  The result is [res |-> floor(sqrt(x)), x |-> x - res^2].         *)
(***************************************************************************)
RECURSIVE NSqrtFrom(_, _)
NSqrtFrom(st, k) ==
    IF k < 0 THEN st
    ELSE LET bit == NShl(<<1>>, 2 * k)
             t   == NAdd(st.res, bit)
         IN  IF NLess(st.x, t)
             THEN NSqrtFrom([x |-> st.x, res |-> NShr(st.res, 1)], k - 1)
             ELSE NSqrtFrom([x |-> NSub(st.x, t),
                             res |-> NAdd(NShr(st.res, 1), bit)], k - 1)

NSqrt(x) == NSqrtFrom([x |-> x, res |-> <<>>], NBitLen(x) \div 2)

(***************************************************************************)
(* IEEE-754 binary64 values that are not negative, as a significand and a  *)
(* binary exponent: the value of [sig |-> m, exp |-> e] is m * 2^(-e),     *)
(* with m a number of at most F64_MANTISSA_DIGITS bits.                    *)
(***************************************************************************)
F64_MANTISSA_DIGITS == 53

\* Round the exact value m * 2^(-e) to 53 significant bits, ties to even.
F64Round(m, e) ==
    IF NBitLen(m) <= F64_MANTISSA_DIGITS THEN [sig |-> m, exp |-> e]
    ELSE LET d    == NBitLen(m) - F64_MANTISSA_DIGITS
             hi   == NShr(m, d)
             lo   == NLow(m, d)
             half == NShl(<<1>>, d - 1)
             up   == NLess(half, lo) \/ (lo = half /\ NOdd(hi))
         IN  [sig |-> IF up THEN NAdd(hi, <<1>>) ELSE hi, exp |-> e - d]

\* usize as f64: exact below 2^53, as every length of this model is
F64FromUsize(n) == [sig |-> NOf(n), exp |-> 0]

\* f64::sqrt, correctly rounded: the root of m * 2^s2 has exactly 53 bits,
\* and it is rounded up when the remainder exceeds it (the root plus one half,
\* squared, is root^2 + root + 1/4).
F64Sqrt(f) ==
    IF f.sig = <<>> THEN f
    ELSE LET L  == NBitLen(f.sig)
             s2 == IF (L + f.exp) % 2 = 0 THEN 2 * F64_MANTISSA_DIGITS - L
                   ELSE 2 * F64_MANTISSA_DIGITS - 1 - L
             r  == NSqrt(NShl(f.sig, s2))
             m  == IF NLess(r.res, r.x) THEN NAdd(r.res, <<1>>) ELSE r.res
         IN  [sig |-> m, exp |-> (f.exp + s2) \div 2]

\* f64 multiplication, correctly rounded
F64Mul(f, g) == F64Round(NMul(f.sig, g.sig), f.exp + g.exp)

\* f64 as usize: truncation toward zero
F64AsUsize(f) ==
    IF f.exp >= 0 THEN NVal(NShr(f.sig, f.exp))
    ELSE NVal(NShl(f.sig, 0 - f.exp))

(***************************************************************************)
(* Return values.  Option<T> is None or Some(x); a function that returns   *)
(* a plain value returns Ret(x); a panic is Panic.                         *)
(***************************************************************************)
None == [tag |-> "None"]

Some(x) == [tag |-> "Some", val |-> x]

Ret(x) == [tag |-> "Ret", val |-> x]

Panic == [tag |-> "Panic"]

(***************************************************************************)
(* Bounds of the model.                                                    *)
(***************************************************************************)
\* the longest cell sequence enumerated exhaustively
MaxCells == 4

\* the number of update calls made on one board
MaxSteps == 4

\* the number of frontier entries one search expands
MaxExpand == 22

(***************************************************************************)
(* game.rs: Move                                                           *)
(***************************************************************************)
Move == {"Left", "Right", "Up", "Down"}

ALL_MOVES == <<"Left", "Right", "Up", "Down">>

\* reverse with the arms of Up and Down left as they are
reverse_horizontal_only(self) ==
    CASE self = "Left"  -> "Right"
      [] self = "Right" -> "Left"
      [] self = "Up"    -> "Up"
      [] self = "Down"  -> "Down"

reverse(self) ==
    CASE self = "Left"  -> "Right"
      [] self = "Right" -> "Left"
      [] self = "Up"    -> "Down"
      [] self = "Down"  -> "Up"

(***************************************************************************)
(* game.rs: Board                                                          *)
(***************************************************************************)
U8_MAX == 255

\* a cast to u8
AsU8(n) == n % (U8_MAX + 1)

board_size(num_cells) ==
    LET root == F64Sqrt(F64FromUsize(num_cells))
    IN  IF F64AsUsize(F64Mul(root, root)) # num_cells THEN None
        ELSE Some(F64AsUsize(root))

\* board_size on every length from_vec passes to it in this model, evaluated
\* once
MemoLens == 0..MaxCells \cup {9, 16}

BoardSizeMemo == [n \in MemoLens |-> board_size(n)]

from_vec(cells) ==
    IF Len(cells) > U8_MAX THEN None
    ELSE LET bs == BoardSizeMemo[Len(cells)]
         IN  IF bs = None THEN None
             ELSE IF \E i \in 1..Len(cells) : cells[i] >= AsU8(Len(cells))
             THEN None
             ELSE IF \A v \in 0..(Len(cells) - 1) :
                        \E i \in 1..Len(cells) : cells[i] = v
             THEN Some([cells |-> cells, side |-> AsU8(bs.val)])
             ELSE None

side(self) == self.side

\* to_linear_index with the column and the row taken one for the other
to_linear_index_transposed(self, ix, iy) == ix * self.side + iy

to_linear_index(self, ix, iy) == iy * self.side + ix

from_linear_index(self, i) == <<i % self.side, i \div self.side>>

\* The scan of hole_position from cell k on (k counts from 1), indices being
\* the grid position the loop holds for that cell.
RECURSIVE hole_scan(_, _, _)
hole_scan(self, k, indices) ==
    IF k > Len(self.cells) THEN Panic
    ELSE IF self.cells[k] = 0 THEN Ret(indices)
    ELSE hole_scan(self, k + 1,
                   IF indices[1] = self.side - 1
                   THEN <<0, indices[2] + 1>>
                   ELSE <<indices[1] + 1, indices[2]>>)

hole_position(self) == hole_scan(self, 1, <<0, 0>>)

\* Vec::swap on positions a and b (counted from 0): a panic when either is
\* out of bounds
swap(cells, a, b) ==
    IF a >= Len(cells) \/ b >= Len(cells) THEN Panic
    ELSE Ret([cells EXCEPT ![a + 1] = cells[b + 1], ![b + 1] = cells[a + 1]])

\* the tail of every arm of update: the clone with two cells swapped
swapped(self, a, b) ==
    LET new_cells == swap(self.cells, a, b)
    IN  IF new_cells = Panic THEN Panic
        ELSE Some([cells |-> new_cells.val, side |-> self.side])

\* update with the test of the right edge one column late
update_right_edge_late(self, command) ==
    LET hole == hole_position(self)
    IN  IF hole = Panic THEN Panic
        ELSE LET ix == hole.val[1]
                 iy == hole.val[2]
             IN  CASE command = "Left" ->
                        IF ix = 0 THEN None
                        ELSE swapped(self, to_linear_index(self, ix, iy),
                                     to_linear_index(self, ix - 1, iy))
                   [] command = "Right" ->
                        IF ix = self.side THEN None
                        ELSE swapped(self, to_linear_index(self, ix, iy),
                                     to_linear_index(self, ix + 1, iy))
                   [] command = "Up" ->
                        IF iy = 0 THEN None
                        ELSE swapped(self, to_linear_index(self, ix, iy),
                                     to_linear_index(self, ix, iy - 1))
                   [] command = "Down" ->
                        IF iy = self.side - 1 THEN None
                        ELSE swapped(self, to_linear_index(self, ix, iy),
                                     to_linear_index(self, ix, iy + 1))

update(self, command) ==
    LET hole == hole_position(self)
    IN  IF hole = Panic THEN Panic
        ELSE LET ix == hole.val[1]
                 iy == hole.val[2]
             IN  CASE command = "Left" ->
                        IF ix = 0 THEN None
                        ELSE swapped(self, to_linear_index(self, ix, iy),
                                     to_linear_index(self, ix - 1, iy))
                   [] command = "Right" ->
                        IF ix = self.side - 1 THEN None
                        ELSE swapped(self, to_linear_index(self, ix, iy),
                                     to_linear_index(self, ix + 1, iy))
                   [] command = "Up" ->
                        IF iy = 0 THEN None
                        ELSE swapped(self, to_linear_index(self, ix, iy),
                                     to_linear_index(self, ix, iy - 1))
                   [] command = "Down" ->
                        IF iy = self.side - 1 THEN None
                        ELSE swapped(self, to_linear_index(self, ix, iy),
                                     to_linear_index(self, ix, iy + 1))

\* verify from move k of solution on, board being the loop's board
RECURSIVE verify_from(_, _, _, _)
verify_from(board, target, solution, k) ==
    IF k > Len(solution) THEN Ret(board = target)
    ELSE LET new_board == update(board, solution[k])
         IN  CASE new_board = Panic -> Panic
               [] new_board = None  -> Ret(FALSE)
               [] OTHER -> verify_from(new_board.val, target, solution, k + 1)

verify(self, target, solution) == verify_from(self, target, solution, 1)

tile_index(self, tile) ==
    LET found == {i \in 1..Len(self.cells) : self.cells[i] = tile}
    IN  IF found = {} THEN Panic
        ELSE Ret(from_linear_index(self,
                     (CHOOSE i \in found : \A j \in found : i <= j) - 1))

tile_distance(self, goal, for_tile) ==
    LET source == tile_index(self, for_tile)
        dest   == tile_index(goal, for_tile)
    IN  IF source = Panic \/ dest = Panic THEN Panic
        ELSE LET source_x == source.val[1]
                 source_y == source.val[2]
                 goal_x   == dest.val[1]
                 goal_y   == dest.val[2]
             IN  Ret((IF source_x > goal_x THEN source_x - goal_x
                      ELSE goal_x - source_x)
                     + (IF source_y > goal_y THEN source_y - goal_y
                        ELSE goal_y - source_y))

\* the loop of estimate_cost from tile on, over the range 1 .. len - 1, whose
\* end is exclusive
RECURSIVE estimate_from(_, _, _, _)
estimate_from(self, goal, tile, acc) ==
    IF tile >= Len(self.cells) - 1 THEN Ret(acc)
    ELSE LET d == tile_distance(self, goal, AsU8(tile))
         IN  IF d = Panic THEN Panic
             ELSE estimate_from(self, goal, tile + 1, acc + d.val)

\* estimate_cost with the range begun at 0, the hole counted as a tile
estimate_cost_counts_hole(self, goal) ==
    IF Len(self.cells) = 0 THEN Panic
    ELSE estimate_from(self, goal, 0, 0)

\* cells.len() - 1 on an empty board underflows: a panic in a debug build,
\* and in a release build a range that reaches a tile the board lacks
estimate_cost(self, goal) ==
    IF Len(self.cells) = 0 THEN Panic
    ELSE estimate_from(self, goal, 1, 0)

\* The ways estimate_cost panics: cells.len() - 1 underflows, or the expect
\* of tile_index fails for a tile of the range that self or goal lacks.
estimate_panics(self, goal) ==
    \/ Len(self.cells) = 0
    \/ \E tile \in 1..(Len(self.cells) - 2) :
          \/ \A i \in 1..Len(self.cells) : self.cells[i] # AsU8(tile)
          \/ \A i \in 1..Len(goal.cells) : goal.cells[i] # AsU8(tile)

(***************************************************************************)
(* search.rs                                                               *)
(***************************************************************************)
AstarNode(goal, node, path_len) ==
    [goal |-> goal, node |-> node, path_len |-> path_len]

\* line 93 for a node compared with its own goal, where estimate_cost
\* returns: self.node.estimate_cost(goal) + self.path_len
node_cost(n) == estimate_cost(n.node, n.goal).val + n.path_len

\* line 96 with its operands the other way round: my_cost.cmp(&other_cost)
cost_cmp_forward(my_cost, other_cost) ==
    CASE my_cost < other_cost -> "Less"
      [] my_cost = other_cost -> "Equal"
      [] OTHER                -> "Greater"

\* line 96: other_cost.cmp(&my_cost), the comparison of the costs inverted
cost_cmp(my_cost, other_cost) ==
    CASE other_cost < my_cost -> "Less"
      [] other_cost = my_cost -> "Equal"
      [] OTHER                -> "Greater"

\* lines 92-93: one of the two calls of estimate_cost, both against the goal
\* of self, panics
cmp_panics(self, other) ==
    \/ estimate_panics(other.node, self.goal)
    \/ estimate_panics(self.node, self.goal)

\* impl Ord for AstarNode: both nodes are estimated against the goal of
\* self, and a panic of estimate_cost is a panic of the comparison
cmp(self, other) ==
    IF cmp_panics(self, other) THEN Panic
    ELSE LET goal       == self.goal
             other_cost == estimate_cost(other.node, goal).val + other.path_len
             my_cost    == estimate_cost(self.node, goal).val + self.path_len
         IN  cost_cmp(my_cost, other_cost)

\* BinaryHeap::push: the item goes to the end of the vector and is sifted
\* up, compared with the entry above it.  An empty heap has no entry to
\* compare the item with; which entry of a heap is above the new item is
\* the heap's business, and the push panics where the comparison does:
\* where the estimate of the entry above the item panics, or that of the
\* item.
push(heap, item) ==
    IF \E o \in BagToSet(heap) : cmp_panics(item, o) THEN Panic
    ELSE Ret(heap (+) SetToBag({item}))

\* BinaryHeap::pop returns a greatest entry of the heap; which one, among
\* entries that compare Equal, is the heap's business.  The only entry of a
\* heap is returned without a comparison.  The entries of a heap of a_star
\* have one goal, and cmp compares two of them by their costs alone, so the
\* cost of each entry is computed once and the entries pop may return are
\* those of the cost no other is Greater than.
pop(heap) ==
    LET entries == BagToSet(heap)
        costed  == {<<node_cost(o), o>> : o \in entries}
        costs   == {p[1] : p \in costed}
        top     == CHOOSE c \in costs : \A d \in costs : cost_cmp(c, d) # "Less"
    IN  IF BagCardinality(heap) <= 1 THEN entries
        ELSE {p[2] : p \in {q \in costed : q[1] = top}}

\* HashMap<Board, Option<Move>>
NoMovements == [b \in {} |-> None]

insert(map, key, value) ==
    [b \in DOMAIN map \cup {key} |-> IF b = key THEN value ELSE map[b]]

RECURSIVE Reversed(_)
Reversed(s) == IF s = <<>> THEN <<>> ELSE Append(Reversed(Tail(s)), Head(s))

\* the while loop of build_path pushing the move it walks back with
RECURSIVE build_walk_pushing_reverse(_, _, _)
build_walk_pushing_reverse(movements, cursor, path) ==
    IF cursor \in DOMAIN movements /\ movements[cursor] # None
    THEN LET movement == movements[cursor].val
             back     == update(cursor, reverse(movement))
         IN  IF back = Panic \/ back = None THEN Panic
             ELSE build_walk_pushing_reverse(movements, back.val,
                                             Append(path, reverse(movement)))
    ELSE Ret(path)

\* the while loop of build_path
RECURSIVE build_walk(_, _, _)
build_walk(movements, cursor, path) ==
    IF cursor \in DOMAIN movements /\ movements[cursor] # None
    THEN LET movement == movements[cursor].val
             back     == update(cursor, reverse(movement))
         IN  IF back = Panic \/ back = None THEN Panic
             ELSE build_walk(movements, back.val, Append(path, movement))
    ELSE Ret(path)

\* build_path without its last statement but one, path.reverse()
build_path_unreversed(movements, ending, length) ==
    IF ending \notin DOMAIN movements THEN Panic
    ELSE IF movements[ending] = None THEN Ret(<<>>)
    ELSE LET movement == movements[ending].val
             back     == update(ending, reverse(movement))
         IN  IF back = Panic \/ back = None THEN Panic
             ELSE build_walk(movements, back.val, <<movement>>)

build_path(movements, ending, length) ==
    IF ending \notin DOMAIN movements THEN Panic
    ELSE IF movements[ending] = None THEN Ret(<<>>)
    ELSE LET movement == movements[ending].val
             back     == update(ending, reverse(movement))
         IN  IF back = Panic \/ back = None THEN Panic
             ELSE LET path == build_walk(movements, back.val, <<movement>>)
                  IN  IF path = Panic THEN Panic
                      ELSE Ret(Reversed(path.val))

\* The value of a search that has not returned.
Running == [tag |-> "Running"]

\* the for loop of a_star with a board found again recorded and pushed anew
RECURSIVE expand_from_relaxing(_, _, _, _, _, _)
expand_from_relaxing(st, goal, moves, current, current_depth, k) ==
    IF k > Len(moves) THEN st
    ELSE LET play == moves[k]
             next == update(current, play)
         IN  IF next = Panic THEN [st EXCEPT !.result = Panic]
             ELSE IF next = None
             THEN expand_from_relaxing(st, goal, moves, current,
                                       current_depth, k + 1)
             ELSE IF next.val = goal
             THEN LET found == insert(st.movements, next.val, Some(play))
                      path  == build_path(found, goal, current_depth)
                  IN  [fringe    |-> st.fringe,
                       movements |-> found,
                       result    |-> IF path = Panic THEN Panic
                                     ELSE Some(path.val)]
             ELSE LET item   == AstarNode(goal, next.val, current_depth)
                      pushed == push(st.fringe, item)
                  IN  IF pushed = Panic
                      THEN [fringe    |-> st.fringe (+) SetToBag({item}),
                            movements |-> st.movements,
                            result    |-> Panic]
                      ELSE expand_from_relaxing(
                               [fringe    |-> pushed.val,
                                movements |-> insert(st.movements, next.val,
                                                     Some(play)),
                                result    |-> st.result],
                               goal, moves, current, current_depth, k + 1)

\* The for loop of a_star over moves[k..] for the popped node current:
\* st holds the frontier, the map and the value returned, if any.  The push
\* of line 39 runs inside the closure of or_insert_with, before the entry
\* is written: where it panics the item is in the vector of the heap and
\* the map is as it was.
RECURSIVE expand_from(_, _, _, _, _, _)
expand_from(st, goal, moves, current, current_depth, k) ==
    IF k > Len(moves) THEN st
    ELSE LET play == moves[k]
             next == update(current, play)
         IN  IF next = Panic THEN [st EXCEPT !.result = Panic]
             ELSE IF next = None
             THEN expand_from(st, goal, moves, current, current_depth, k + 1)
             ELSE IF next.val = goal
             THEN LET found == insert(st.movements, next.val, Some(play))
                      path  == build_path(found, goal, current_depth)
                  IN  [fringe    |-> st.fringe,
                       movements |-> found,
                       result    |-> IF path = Panic THEN Panic
                                     ELSE Some(path.val)]
             ELSE IF next.val \in DOMAIN st.movements
             THEN expand_from(st, goal, moves, current, current_depth, k + 1)
             ELSE LET item   == AstarNode(goal, next.val, current_depth)
                      pushed == push(st.fringe, item)
                  IN  IF pushed = Panic
                      THEN [fringe    |-> st.fringe (+) SetToBag({item}),
                            movements |-> st.movements,
                            result    |-> Panic]
                      ELSE expand_from(
                               [fringe    |-> pushed.val,
                                movements |-> insert(st.movements, next.val,
                                                     Some(play)),
                                result    |-> st.result],
                               goal, moves, current, current_depth, k + 1)

(***************************************************************************)
(* The state.  One call of a_star: its arguments start, goal and moves,    *)
(* its frontier (fringe) and map (movements), the node it popped last      *)
(* (current), the value it returned (result), the number of nodes it has   *)
(* expanded, and where it stands (pc).  One board under construction and   *)
(* use: the candidate cells given to from_vec (cand), what from_vec        *)
(* returned and the caller holds (board), the last move tried (play), what *)
(* update returned for it (out), the number of update calls so far (steps) *)
(* and where the caller stands (bpc).                                      *)
(***************************************************************************)
VARIABLES start, goal, moves, fringe, movements, current, result, expanded, pc,
          cand, board, play, out, steps, bpc

searchVars == <<start, goal, moves, fringe, movements, current, result,
                expanded, pc>>

boardVars == <<cand, board, play, out, steps, bpc>>

vars == <<start, goal, moves, fringe, movements, current, result, expanded,
          pc, cand, board, play, out, steps, bpc>>

\* the board of no cells that from_vec builds from the empty vector
EmptyBoard == [cells |-> <<>>, side |-> 0]

SearchIdle ==
    /\ start = EmptyBoard
    /\ goal = EmptyBoard
    /\ moves = <<>>
    /\ fringe = EmptyBag
    /\ movements = NoMovements
    /\ current = None
    /\ result = Running
    /\ expanded = 0
    /\ pc = "idle"

BoardIdle ==
    /\ cand = <<>>
    /\ board = None
    /\ play = "Left"
    /\ out = None
    /\ steps = 0
    /\ bpc = "idle"

(***************************************************************************)
(* The inputs.                                                             *)
(***************************************************************************)
\* the permutations of 0 .. n-1
Perms(n) ==
    {s \in [1..n -> 0..(n - 1)] :
        \A i \in 1..n : \A j \in 1..n : i # j => s[i] # s[j]}

\* the permutations whose tiles are in order, the hole anywhere: the goals of
\* the tests of search.rs and of terminal-puzzle are of this shape
Ordered(n) ==
    {s \in Perms(n) :
        \A i \in 1..n : \A j \in 1..n :
            (i < j /\ s[i] # 0 /\ s[j] # 0) => s[i] < s[j]}

\* tests::moves of search.rs
TestMoves == <<"Up", "Down", "Left", "Right">>

\* the moves a caller may pass: ALL_MOVES, each selection of it, and the
\* moves of the tests
MoveLists ==
    {SelectSeq(ALL_MOVES, LAMBDA m : m \in S) : S \in SUBSET Move}
        \cup {TestMoves}

\* every start and every ordered goal up to MaxCells cells that from_vec
\* accepts, with every move list
SmallInputs ==
    {[start |-> s, goal |-> g, moves |-> ms] :
        s \in UNION {Perms(n) : n \in 0..MaxCells},
        g \in UNION {Ordered(n) : n \in 0..MaxCells},
        ms \in MoveLists}

\* tests::goal, board_1 .. board_4 of search.rs
TestGoal == <<1, 2, 3, 4, 5, 6, 7, 8, 0>>

TestStarts ==
    {<<1, 2, 3, 4, 0, 5, 7, 8, 6>>,
     <<1, 2, 3, 7, 4, 5, 0, 8, 6>>,
     <<1, 2, 3, 4, 8, 0, 7, 6, 5>>,
     <<4, 1, 3, 7, 2, 6, 5, 8, 0>>}

TestInputs ==
    {[start |-> s, goal |-> TestGoal, moves |-> ms] :
        s \in TestStarts, ms \in {TestMoves, ALL_MOVES, <<"Right", "Down">>,
                                  <<"Left">>}}

\* a start ten moves from the goal of test::trivial_board of game.rs
DeepInputs ==
    {[start |-> <<5, 3, 4, 1, 0, 2, 6, 7, 8>>,
      goal  |-> <<0, 1, 2, 3, 4, 5, 6, 7, 8>>,
      moves |-> ALL_MOVES]}

\* a caller of a_star holds two boards that from_vec built
Callable(inp) ==
    /\ from_vec(inp.start) # None
    /\ from_vec(inp.goal) # None

InitSearch(inputs) ==
    /\ \E inp \in inputs :
          /\ Callable(inp)
          /\ start = from_vec(inp.start).val
          /\ goal = from_vec(inp.goal).val
          /\ moves = inp.moves
    /\ fringe = EmptyBag
    /\ movements = NoMovements
    /\ current = None
    /\ result = Running
    /\ expanded = 0
    /\ pc = "called"
    /\ BoardIdle

(***************************************************************************)
(* a_star, one action for each stretch of it that runs without a choice.   *)
(***************************************************************************)
\* a_star without the special case of lines 17-20
EnterWithoutSpecialCase ==
    /\ pc = "called"
    /\ fringe' = push(EmptyBag, AstarNode(goal, start, 0)).val
    /\ movements' = insert(NoMovements, start, None)
    /\ pc' = "searching"
    /\ UNCHANGED <<start, goal, moves, current, result, expanded>>
    /\ UNCHANGED boardVars

\* lines 17-26: the special case, or the first push and insert
Enter ==
    /\ pc = "called"
    /\ IF start = goal
       THEN /\ result' = Some(<<>>)
            /\ pc' = "returned"
            /\ UNCHANGED <<fringe, movements>>
       ELSE /\ fringe' = push(EmptyBag, AstarNode(goal, start, 0)).val
            /\ movements' = insert(NoMovements, start, None)
            /\ pc' = "searching"
            /\ UNCHANGED result
    /\ UNCHANGED <<start, goal, moves, current, expanded>>
    /\ UNCHANGED boardVars

\* lines 28-49: one turn of the while loop, from the pop of an entry e to the
\* end of the for loop, or to the return or the panic inside it
Expand ==
    /\ pc = "searching"
    /\ expanded < MaxExpand
    /\ \E e \in pop(fringe) :
          /\ \E st \in {expand_from([fringe    |-> fringe (-) SetToBag({e}),
                                      movements |-> movements,
                                      result    |-> Running],
                                     goal, moves, e.node, e.path_len + 1, 1)} :
                 /\ fringe' = st.fringe
                 /\ movements' = st.movements
                 /\ result' = st.result
                 /\ pc' = IF st.result = Running THEN "searching"
                          ELSE IF st.result = Panic THEN "panicked"
                          ELSE "returned"
          /\ current' = Some(e)
    /\ expanded' = expanded + 1
    /\ UNCHANGED <<start, goal, moves>>
    /\ UNCHANGED boardVars

\* lines 28 and 51: the frontier is empty
Exhaust ==
    /\ pc = "searching"
    /\ fringe = EmptyBag
    /\ result' = None
    /\ pc' = "returned"
    /\ UNCHANGED <<start, goal, moves, fringe, movements, current, expanded>>
    /\ UNCHANGED boardVars

Init == InitSearch(SmallInputs \cup TestInputs)

Next ==
    \/ Enter
    \/ Expand
    \/ Exhaust

\* every call of a_star on the small inputs and on those of the tests
Spec == Init /\ [][Next]_vars

DeepInit == InitSearch(SmallInputs \cup TestInputs \cup DeepInputs)

\* the same with the deep input, each search cut after MaxExpand expansions
DeepSpec == DeepInit /\ [][Next]_vars

(***************************************************************************)
(* One board: from_vec on a candidate, then update calls on the board the  *)
(* caller holds, which it replaces by the board an update returns, as the  *)
(* loops of verify and of a_star do.                                       *)
(***************************************************************************)
\* every sequence up to MaxCells cells over the values 0 .. MaxCells
SmallCands == UNION {[1..n -> 0..MaxCells] : n \in 0..MaxCells}

\* the vectors of the tests of game.rs and search.rs, and one of
\* U8_MAX + 1 cells
SeedCands ==
    {<<0, 1, 2, 3, 4, 5, 6, 7, 8>>,
     <<1, 0, 2, 3, 4, 5, 6, 7, 8>>,
     <<1, 2, 3, 4, 5, 6, 7, 8, 0>>,
     <<1, 1, 1, 1, 1, 1, 1, 1, 1>>,
     <<0, 0, 0, 0, 0, 0, 0, 0, 0>>,
     <<1, 2, 3, 4, 5, 6, 5, 7, 0>>,
     [i \in 1..(U8_MAX + 1) |-> i - 1]}

BoardInit ==
    /\ cand \in SmallCands \cup SeedCands
    /\ board = None
    /\ play = "Left"
    /\ out = None
    /\ steps = 0
    /\ bpc = "new"
    /\ SearchIdle

Construct ==
    /\ bpc = "new"
    /\ board' = from_vec(cand)
    /\ bpc' = IF from_vec(cand) = None THEN "rejected" ELSE "built"
    /\ UNCHANGED <<cand, play, out, steps>>
    /\ UNCHANGED searchVars

\* board.update(command): the receiver is borrowed and stays as it is
Update(command) ==
    /\ bpc = "built"
    /\ steps < MaxSteps
    /\ play' = command
    /\ out' = update(board.val, command)
    /\ steps' = steps + 1
    /\ bpc' = IF update(board.val, command) = Panic THEN "panicked"
              ELSE "updated"
    /\ UNCHANGED <<cand, board>>
    /\ UNCHANGED searchVars

\* the caller goes on with the new board, or with its own after a None
Continue ==
    /\ bpc = "updated"
    /\ board' = IF out = None THEN board ELSE out
    /\ bpc' = "built"
    /\ UNCHANGED <<cand, play, out, steps>>
    /\ UNCHANGED searchVars

BoardNext ==
    \/ Construct
    \/ \E command \in Move : Update(command)
    \/ Continue

BoardSpec == BoardInit /\ [][BoardNext]_vars

(***************************************************************************)
(* What the properties speak of.                                           *)
(***************************************************************************)
IsSquare(n) == \E k \in 0..n : k * k = n

IsPermutation(cells) ==
    \A v \in 0..(Len(cells) - 1) :
        Cardinality({i \in 1..Len(cells) : cells[i] = v}) = 1

\* the board invariant: a positive side whose square is the number of cells,
\* the cells a permutation of 0 .. side * side - 1 with one hole
BoardInvariant(b) ==
    /\ b.side > 0
    /\ b.side * b.side = Len(b.cells)
    /\ IsPermutation(b.cells)
    /\ Cardinality({i \in 1..Len(b.cells) : b.cells[i] = 0}) = 1

\* the boards one successful update away from b, by a move of the set ms
Successors(b, ms) ==
    {update(b, m).val : m \in {n \in ms : update(b, n).tag = "Some"}}

\* target is among frontier, or at most k updates by moves of ms away from it
RECURSIVE ReachesWithin(_, _, _, _, _)
ReachesWithin(seen, frontier, target, ms, k) ==
    IF k < 0 THEN FALSE
    ELSE IF target \in frontier THEN TRUE
    ELSE IF frontier = {} \/ k = 0 THEN FALSE
    ELSE LET known == seen \cup frontier
             next  == UNION {Successors(b, ms) : b \in frontier} \ known
         IN  ReachesWithin(known, next, target, ms, k - 1)

\* the number of boards of n cells bounds the length of a shortest way
RECURSIVE Factorial(_)
Factorial(n) == IF n <= 1 THEN 1 ELSE n * Factorial(n - 1)

Reaches(from, target, ms) ==
    ReachesWithin({}, {from}, target, ms, Factorial(Len(from.cells)))

MoveSet(ms) == {ms[k] : k \in 1..Len(ms)}

Returned == pc = "returned"

Panicked == pc = "panicked"

Found == Returned /\ result.tag = "Some"

\* the two ends of a_star the description knows
Terminal ==
    \/ Found
    \/ Returned /\ result = None /\ fringe = EmptyBag

(***************************************************************************)
(* The properties of a_star.                                               *)
(***************************************************************************)
\* start and goal are boards of the same size
SameSize == Len(start.cells) = Len(goal.cells)

\* C1: for a start and a goal of the same size, whenever a_star returns a
\* sequence, start.verify(goal, sequence) is true: the replay from start
\* never hits an edge and ends on goal.
C1_ReturnedPathVerifies ==
    (SameSize /\ Found) => verify(start, goal, result.val) = Ret(TRUE)

\* a_star has returned the eight moves that solve board_4 of the tests
C1_Witness ==
    /\ Found
    /\ start.cells = <<4, 1, 3, 7, 2, 6, 5, 8, 0>>
    /\ Len(result.val) = 8
    /\ verify(start, goal, result.val) = Ret(TRUE)

\* C2: for a start and a goal of the same size, with the full move set,
\* under every order of the pops among entries of equal cost, the sequence
\* a_star returns is of minimal length: no shorter sequence of moves leads
\* from start to goal.
C2_ReturnedPathIsShortest ==
    (SameSize /\ Found /\ MoveSet(moves) = Move)
        => ~ReachesWithin({}, {start}, goal, Move, Len(result.val) - 1)

\* C3: for a start and a goal of the same size, a_star returns nothing if
\* and only if no sequence of the supplied moves leads from start to goal.
C3_NoneIffUnreachable ==
    (SameSize /\ (Returned \/ Panicked))
        => ((Returned /\ result = None) <=> ~Reaches(start, goal, MoveSet(moves)))

\* C4: for a start and a goal of the same size, the search loop reaches a
\* terminal state: it returns a sequence, or the frontier is empty and it
\* returns nothing.  Every turn of the loop
\* counts in expanded, so a run is finite, and it reaches a terminal state
\* exactly when the state it stops in is one: a_star is entered, at work, or
\* in a terminal state.
C4_SearchEndsTerminal ==
    SameSize => (pc \in {"called", "searching"} \/ Terminal)

\* each turn of the loop pops one board the map holds, and none twice: the
\* loop takes no more turns than there are boards
TurnsBounded ==
    /\ expanded <= Cardinality(DOMAIN movements)
    /\ Cardinality(DOMAIN movements) <= Factorial(Len(start.cells))

\* C5: when start equals goal a_star returns the empty sequence at once,
\* with nothing pushed on the frontier and nothing put in the map, whatever
\* the moves.
C5_StartIsGoal ==
    (start = goal /\ pc # "called")
        => /\ Returned
           /\ result = Some(<<>>)
           /\ fringe = EmptyBag
           /\ movements = NoMovements
           /\ expanded = 0

\* a_star has returned for a 2 x 2 board that is its own goal, with no moves
C5_Witness ==
    /\ Returned
    /\ start = goal
    /\ Len(start.cells) = 4
    /\ moves = <<>>
    /\ result = Some(<<>>)

\* C6: when start differs from goal and one of the supplied moves turns
\* start into goal, a_star returns a sequence of exactly one move.
C6_OneMoveAway ==
    ((Returned \/ Panicked)
        /\ start # goal
        /\ \E k \in 1..Len(moves) : update(start, moves[k]) = Some(goal))
        => (Found /\ Len(result.val) = 1)

\* every entry pop may return is a greatest one by cmp
PopIsGreatest ==
    pc = "searching"
        => \A e \in pop(fringe) : \A o \in BagToSet(fringe) :
               ~cmp_panics(e, o) => cmp(e, o) # "Less"

\* the entries of the frontier carry the goal of the call, and where the
\* frontier holds several, a push has compared them and none of their
\* comparisons panics
FrontierComparable ==
    /\ \A e \in BagToSet(fringe) : e.goal = goal
    /\ (pc = "searching" /\ BagCardinality(fringe) >= 2)
           => \A e \in BagToSet(fringe) : \A o \in BagToSet(fringe) :
                  ~cmp_panics(e, o)

\* estimate_cost panics for the boards of a search exactly where
\* estimate_panics says
EstimatePanicsAgrees ==
    \A b \in DOMAIN movements \cup {e.node : e \in BagToSet(fringe)} :
        estimate_panics(b, goal) <=> estimate_cost(b, goal) = Panic

\* between valid boards of different sizes the push of line 39 can panic
PushPanicsOnlyAcrossSizes ==
    (Panicked /\ BoardInvariant(start) /\ BoardInvariant(goal))
        => /\ ~SameSize
           /\ \E e \in BagToSet(fringe) : estimate_panics(e.node, goal)

\* the cap on the expansions stops no search of Spec
CapNotReached == pc = "searching" => expanded < MaxExpand

\* On boards of one size that keep the board invariant a_star does not
\* panic, and C3, C4 and C6 hold of it.
OnValidBoards ==
    (SameSize /\ BoardInvariant(start) /\ BoardInvariant(goal))
        => /\ ~Panicked
           /\ C3_NoneIffUnreachable
           /\ C4_SearchEndsTerminal
           /\ C6_OneMoveAway

(***************************************************************************)
(* The properties of Board.                                                *)
(***************************************************************************)
\* from_vec has been called on cand
Constructed == bpc # "new"

\* update has been called on board with play, and out is what it returned
Tried == bpc \in {"updated", "panicked"}

\* the place of the hole among the cells, counted from 1
HoleAt(b) == CHOOSE i \in 1..Len(b.cells) : b.cells[i] = 0

HoleColumn(b) == (HoleAt(b) - 1) % b.side

HoleRow(b) == (HoleAt(b) - 1) \div b.side

\* the hole is on the edge of the grid in the direction of the move m
OnEdge(b, m) ==
    CASE m = "Left"  -> HoleColumn(b) = 0
      [] m = "Right" -> HoleColumn(b) = b.side - 1
      [] m = "Up"    -> HoleRow(b) = 0
      [] m = "Down"  -> HoleRow(b) = b.side - 1

\* the place of the neighbour of the hole one grid step away in direction m
NeighbourAt(b, m) ==
    CASE m = "Left"  -> HoleAt(b) - 1
      [] m = "Right" -> HoleAt(b) + 1
      [] m = "Up"    -> HoleAt(b) - b.side
      [] m = "Down"  -> HoleAt(b) + b.side

\* a call of update leaves its receiver as it was
ReceiverKept ==
    [][(bpc = "built" /\ bpc' \in {"updated", "panicked"}) => board' = board]_vars

\* C7: from_vec returns a board exactly when the length of the candidate is a
\* perfect square of at most U8_MAX and the candidate is a permutation of
\* 0 .. length - 1; every other candidate is rejected.
C7_FromVecAccepts ==
    Constructed
        => ((bpc # "rejected")
               <=> /\ IsSquare(Len(cand))
                   /\ Len(cand) <= U8_MAX
                   /\ IsPermutation(cand))

\* C8: every board there is, returned by from_vec or by an update, keeps the
\* board invariant.
C8_BoardsKeepInvariant ==
    /\ board.tag = "Some" => BoardInvariant(board.val)
    /\ out.tag = "Some" => BoardInvariant(out.val)

\* C9: on a valid board update returns None if and only if the hole is on
\* the edge of the grid in the direction of the move, and the receiver is
\* left as it was.
C9_EdgeMoveFails ==
    /\ [](Tried /\ BoardInvariant(board.val)
             => ((out = None) <=> OnEdge(board.val, play)))
    /\ ReceiverKept

\* update has returned None for Right on a 3 x 3 board, hole in column 2
C9_Witness ==
    /\ bpc = "updated"
    /\ BoardInvariant(board.val)
    /\ board.val.side = 3
    /\ play = "Right"
    /\ HoleColumn(board.val) = 2
    /\ out = None

\* C10: on a valid board an applicable move returns a new board of the same
\* side whose cells are the receiver's with the hole and its neighbour in
\* the direction of the move swapped; exactly two cells differ, and the
\* receiver is left as it was.
C10_MoveSwapsTwoCells ==
    /\ []((Tried /\ BoardInvariant(board.val) /\ ~OnEdge(board.val, play))
             => /\ out.tag = "Some"
                /\ out.val.side = board.val.side
                /\ Len(out.val.cells) = Len(board.val.cells)
                /\ LET old == board.val.cells
                       new == out.val.cells
                       h   == HoleAt(board.val)
                       t   == NeighbourAt(board.val, play)
                   IN  /\ new[t] = 0
                       /\ new[h] = old[t]
                       /\ \A i \in 1..Len(old) \ {h, t} : new[i] = old[i]
                       /\ Cardinality({i \in 1..Len(old) : new[i] # old[i]})
                              = 2)
    /\ ReceiverKept

\* update has returned a board for Down on a 3 x 3 board, hole in the middle
C10_Witness ==
    /\ bpc = "updated"
    /\ BoardInvariant(board.val)
    /\ board.val.side = 3
    /\ play = "Down"
    /\ HoleAt(board.val) = 5
    /\ out.tag = "Some"
    /\ out.val.cells[8] = 0

\* On candidates of a square length from_vec is as C7 has it, and every
\* board from a candidate of a square length other than 0 keeps the board
\* invariant.
OnSquareLengths ==
    IsSquare(Len(cand))
        => /\ C7_FromVecAccepts
           /\ Len(cand) > 0 => C8_BoardsKeepInvariant

(***************************************************************************)
(* Two boards: self, built by from_vec from cand and moved by update, and  *)
(* goal.  result holds what estimate_cost(goal) returned for the board the *)
(* caller holds, current what it returned for the board update returned;   *)
(* Running and None stand for a call not made.                             *)
(***************************************************************************)
\* every two vectors of one length up to MaxCells that from_vec accepts, and
\* the boards of the tests against their goals
CostInputs ==
    {[self |-> s, goal |-> g] :
        s \in UNION {Perms(n) : n \in 0..MaxCells},
        g \in UNION {Perms(n) : n \in 0..MaxCells}}
    \cup
    {[self |-> s, goal |-> g] :
        s \in TestStarts \cup {<<0, 1, 2, 3, 4, 5, 6, 7, 8>>,
                               <<1, 2, 3, 4, 5, 6, 7, 0, 8>>},
        g \in {TestGoal}}

CostInit ==
    /\ \E inp \in CostInputs :
          /\ Len(inp.self) = Len(inp.goal)
          /\ from_vec(inp.self) # None
          /\ from_vec(inp.goal) # None
          /\ cand = inp.self
          /\ goal = from_vec(inp.goal).val
    /\ board = None
    /\ play = "Left"
    /\ out = None
    /\ steps = 0
    /\ bpc = "new"
    /\ start = EmptyBoard
    /\ moves = <<>>
    /\ fringe = EmptyBag
    /\ movements = NoMovements
    /\ current = None
    /\ result = Running
    /\ expanded = 0
    /\ pc = "idle"

\* board.estimate_cost(&goal) for the board the caller holds
Estimate ==
    /\ bpc \in {"built", "updated"}
    /\ result = Running
    /\ result' = estimate_cost(board.val, goal)
    /\ UNCHANGED <<start, goal, moves, fringe, movements, current, expanded,
                   pc>>
    /\ UNCHANGED boardVars

\* new_board.estimate_cost(&goal) for the board update returned
EstimateNext ==
    /\ bpc = "updated"
    /\ out.tag = "Some"
    /\ current = None
    /\ current' = estimate_cost(out.val, goal)
    /\ UNCHANGED <<start, goal, moves, fringe, movements, result, expanded,
                   pc>>
    /\ UNCHANGED boardVars

\* the caller goes on with the new board and its estimate, if it has one, or
\* with its own after a None
Advance ==
    /\ bpc = "updated"
    /\ board' = IF out = None THEN board ELSE out
    /\ result' = IF out = None THEN result
                 ELSE IF current = None THEN Running
                 ELSE current
    /\ current' = None
    /\ bpc' = "built"
    /\ UNCHANGED <<cand, play, out, steps>>
    /\ UNCHANGED <<start, goal, moves, fringe, movements, expanded, pc>>

CostNext ==
    \/ Construct
    \/ \E command \in Move : Update(command)
    \/ Estimate
    \/ EstimateNext
    \/ Advance

CostSpec == CostInit /\ [][CostNext]_vars

(***************************************************************************)
(* The properties of estimate_cost.                                        *)
(***************************************************************************)
\* the place of tile among the cells of b, counted from 1
TileAt(b, tile) == CHOOSE i \in 1..Len(b.cells) : b.cells[i] = tile

Distance(a, b) == IF a > b THEN a - b ELSE b - a

\* the grid distance between places i and j of a board of side n
Manhattan(n, i, j) ==
    Distance((i - 1) % n, (j - 1) % n)
        + Distance((i - 1) \div n, (j - 1) \div n)

\* the grid distance of tile between its places in b and in g
TileManhattan(b, g, tile) == Manhattan(b.side, TileAt(b, tile), TileAt(g, tile))

\* the sum of the grid distances of the tiles 1 .. last
RECURSIVE ManhattanSum(_, _, _)
ManhattanSum(b, g, last) ==
    IF last < 1 THEN 0
    ELSE TileManhattan(b, g, last) + ManhattanSum(b, g, last - 1)

\* estimate_cost has returned for two valid boards
Estimated ==
    /\ bpc \in {"built", "updated"}
    /\ result.tag = "Ret"
    /\ BoardInvariant(board.val)
    /\ BoardInvariant(goal)

\* update has returned a board for a valid board and both are estimated
EstimatedBoth ==
    /\ bpc = "updated"
    /\ out.tag = "Some"
    /\ result.tag = "Ret"
    /\ current.tag = "Ret"
    /\ BoardInvariant(board.val)
    /\ BoardInvariant(goal)

\* C11: between two valid boards of one size estimate_cost is the sum, over
\* every tile 1 .. side * side - 1, of the grid distance between the place of
\* the tile in self and its place in goal.
C11_EstimateSumsAllTiles ==
    Estimated
        => result.val = ManhattanSum(board.val, goal, Len(goal.cells) - 1)

\* what estimate_cost sums: the tiles 1 .. side * side - 2, the range of its
\* loop ending before the last tile
EstimateLeavesLastTileOut ==
    Estimated
        => result.val = ManhattanSum(board.val, goal, Len(goal.cells) - 2)

\* C12: after an update of a valid board the estimate has changed by exactly
\* the change of the grid distance of the one tile the move relocated.
C12_EstimateChangesByMovedTile ==
    EstimatedBoth
        => LET tile == board.val.cells[NeighbourAt(board.val, play)]
           IN  current.val - result.val
                   = TileManhattan(out.val, goal, tile)
                         - TileManhattan(board.val, goal, tile)

\* C12 holds of every move of a tile other than the last
EstimateFollowsOtherTiles ==
    (EstimatedBoth
        /\ board.val.cells[NeighbourAt(board.val, play)] # Len(goal.cells) - 1)
        => C12_EstimateChangesByMovedTile

\* C13: estimate_cost is admissible: between two valid boards it is at most
\* the least number of moves that turn self into goal, so no sequence of
\* fewer moves than the estimate does.
C13_EstimateAdmissible ==
    Estimated
        => ~ReachesWithin({}, {board.val}, goal, Move, result.val - 1)

\* board_4 of the tests is estimated at 6, and 8 moves turn it into the goal
C13_Witness ==
    /\ Estimated
    /\ board.val.cells = <<4, 1, 3, 7, 2, 6, 5, 8, 0>>
    /\ goal.cells = TestGoal
    /\ result.val = 6
    /\ ReachesWithin({}, {board.val}, goal, Move, 8)

\* C14: on the boards from_vec accepts and those update returns from them,
\* update and estimate_cost do not panic: a failure is an absent result.
C14_NoPanic ==
    /\ bpc # "panicked"
    /\ result # Panic
    /\ current # Panic

\* on boards that keep the board invariant nothing panics
NoPanicOnValidBoards ==
    (board.tag = "Some" /\ BoardInvariant(board.val)) => C14_NoPanic

(***************************************************************************)
(* The properties of the frontier and of the map of a_star.                *)
(***************************************************************************)
\* the number of moves the map records from b back to the start
RECURSIVE ChainLen(_, _)
ChainLen(map, b) ==
    IF map[b] = None THEN 0
    ELSE 1 + ChainLen(map, update(b, reverse(map[b].val)).val)

\* n is the least number of moves of ms that turn from into to
ShortestIs(from, to, ms, n) ==
    /\ ReachesWithin({}, {from}, to, ms, n)
    /\ ~ReachesWithin({}, {from}, to, ms, n - 1)

\* a search between two valid boards is under way or has returned
SearchOnValidBoards ==
    /\ pc \in {"searching", "returned"}
    /\ BoardInvariant(start)
    /\ BoardInvariant(goal)

\* the path length of a frontier entry is the length of the chain of moves
\* the map records for its board
PathLenIsChainLen ==
    SearchOnValidBoards
        => \A e \in BagToSet(fringe) :
               e.path_len = ChainLen(movements, e.node)

\* C15: with the full move set, every board in the map was first discovered
\* over a shortest way: the path length it was pushed with, and the length
\* of the chain of moves the map records for it, is the least number of
\* moves from start to it.
C15_FirstDiscoveryIsShortest ==
    (SearchOnValidBoards /\ MoveSet(moves) = Move)
        => /\ \A e \in BagToSet(fringe) :
                  ShortestIs(start, e.node, Move, e.path_len)
           /\ \A b \in DOMAIN movements :
                  ShortestIs(start, b, Move, ChainLen(movements, b))

\* C16: a discovered board is never examined again or relaxed: the move the
\* map holds for a board never changes, and a board is pushed on the
\* frontier only when it is first put in the map, even when it is found
\* again over a shorter way.
C16_DiscoveredNeverRelaxed ==
    [][pc = "searching"
          => /\ \A b \in DOMAIN movements :
                    b \in DOMAIN movements' /\ movements'[b] = movements[b]
             /\ \A e \in BagToSet(fringe') :
                    /\ CopiesIn(e, fringe') = 1
                    /\ BagIn(e, fringe) \/ e.node \notin DOMAIN movements
                    /\ \A o \in BagToSet(fringe') : o.node = e.node => o = e]_vars

\* a turn of the loop has found a board again over a shorter way than the
\* one the map records for it
C16_Witness ==
    /\ pc = "searching"
    /\ BoardInvariant(start)
    /\ current.tag = "Some"
    /\ \E k \in 1..Len(moves) :
          LET next == update(current.val.node, moves[k])
          IN  /\ next.tag = "Some"
              /\ next.val \in DOMAIN movements
              /\ ChainLen(movements, next.val) > current.val.path_len + 1

\* f = g + h of a frontier entry
F(e) == e.path_len + estimate_cost(e.node, goal).val

\* C17: at every turn of the loop the entry popped has the least f among the
\* entries the frontier held: the comparison is inverted, so that in the
\* max-heap the smaller f ranks higher.
C17_PoppedHasLeastF ==
    [][(pc = "searching" /\ expanded' = expanded + 1)
          => /\ current'.tag = "Some"
             /\ BagIn(current'.val, fringe)
             /\ \A o \in BagToSet(fringe) :
                    o = current'.val \/ F(current'.val) <= F(o)]_vars

\* an entry has been popped while the frontier held an older one of greater f
C17_Witness ==
    /\ pc = "searching"
    /\ current.tag = "Some"
    /\ \E o \in BagToSet(fringe) :
          /\ o.path_len <= current.val.path_len
          /\ F(o) > F(current.val)

\* the search has found the goal: line 34 has recorded it in the map
GoalFound ==
    /\ pc \in {"returned", "panicked"}
    /\ current.tag = "Some"
    /\ goal \in DOMAIN movements

\* the board path leads to from b, None where a move of it does not apply
RECURSIVE After(_, _)
After(b, path) ==
    IF path = <<>> THEN Some(b)
    ELSE LET next == update(b, Head(path))
         IN  IF next.tag = "Some" THEN After(next.val, Tail(path)) ELSE None

\* path is made of the moves map records for the boards it passes, in the
\* order from the start board to the goal
RecordedForward(map, from, path) ==
    \A k \in 1..Len(path) :
        LET at == After(from, SubSeq(path, 1, k))
        IN  /\ at.tag = "Some"
            /\ at.val \in DOMAIN map
            /\ map[at.val] = Some(path[k])

\* what reconstruction owes once the goal is found
Reconstructed ==
    /\ Found
    /\ Len(result.val) = current.val.path_len + 1
    /\ RecordedForward(movements, start, result.val)
    /\ After(start, result.val) = Some(goal)

\* C18: whenever the search has found the goal, path reconstruction succeeds:
\* every reverse update applies, the walk ends at the start board after the
\* path length of the expanded node plus one steps, and the value returned
\* is the recorded moves in forward order.
C18_ReconstructionSucceeds == GoalFound => Reconstructed

\* the same where both boards are valid
ReconstructionOnValidBoards ==
    (GoalFound /\ BoardInvariant(start) /\ BoardInvariant(goal))
        => Reconstructed

(***************************************************************************)
(* Moves and their reverses.                                               *)
(***************************************************************************)
\* the move that goes the other way
Opposite(m) ==
    IF m = "Left" THEN "Right"
    ELSE IF m = "Right" THEN "Left"
    ELSE IF m = "Up" THEN "Down"
    ELSE "Up"

\* C19: reverse maps Left to Right and Up to Down and back, so that the
\* reverse of the reverse of a move is the move, and on a valid board a move
\* that succeeds is undone by its reverse: the reverse applies to the board
\* returned and gives the board the move was made on.
C19_ReverseUndoes ==
    /\ \A m \in Move : reverse(m) = Opposite(m) /\ reverse(reverse(m)) = m
    /\ (bpc = "updated" /\ BoardInvariant(board.val) /\ out.tag = "Some")
           => update(out.val, reverse(play)) = Some(board.val)

\* a vertical move has succeeded on a valid board of side 3
C19_Witness ==
    /\ bpc = "updated"
    /\ BoardInvariant(board.val)
    /\ board.val.side = 3
    /\ play \in {"Up", "Down"}
    /\ out.tag = "Some"
    /\ out.val # board.val

(***************************************************************************)
(* Restricted move sets.                                                   *)
(***************************************************************************)
\* C20: whatever selection of the four moves the caller supplies, every move
\* of the sequence returned is one of the moves supplied, though the walk
\* back over the map applies the reverses of moves, which the caller may not
\* have supplied.
C20_PathUsesSuppliedMoves ==
    Found => \A k \in 1..Len(result.val) : result.val[k] \in MoveSet(moves)

\* a path of several moves has been returned under a move set that holds
\* the reverse of none of them
C20_Witness ==
    /\ Found
    /\ Len(result.val) >= 2
    /\ MoveSet(moves) # Move
    /\ \A k \in 1..Len(result.val) :
           reverse(result.val[k]) \notin MoveSet(moves)

====
